---------------------------- MODULE Spec2Model ----------------------------
(***************************************************************************)
(* The report store of the officer report dashboard: one JSON document per *)
(* report under officer_reports/<folder>/<date>_<type>.json, the review    *)
(* actions that rewrite a document, and the archival sweep that moves old  *)
(* documents under officer_reports/Archives/<yyyy_mm>/<officer>/.          *)
(*                                                                         *)
(* Text that the code splits or rewrites (the date, the type, a file name) *)
(* is a sequence of tokens: a token is " " or "_" or a word holding        *)
(* neither.  All other text is a plain string.                             *)
(***************************************************************************)
EXTENDS Integers, Sequences, FiniteSets, TLC

(***************************************************************************)
(* Program constants.                                                      *)
(***************************************************************************)
ADDITIONAL_FOLDERS == {"Templates", "Summaries", "Archives", "Attachments", "Tasks"}

SYSTEM_FOLDERS == {"Summaries", "Archive", "Attachments", "Templates", "__pycache__"}

AUTO_ARCHIVE_DAYS == 30

(***************************************************************************)
(* Bounds of the model.                                                    *)
(***************************************************************************)
\* uuid4 values handed out by submit_report.
MaxReports == 2

\* JSON null, and pandas' NaN for a column a row does not have.
None == "<null>"

NaN == "<NaN>"

(***************************************************************************)
(* Calendar: datetime.strptime(s, '%Y-%m-%d'), strftime and the day        *)
(* arithmetic of datetime, over the dates the model uses.                  *)
(***************************************************************************)
\* The calendar dates of the model, as (year, month, day).
ModelDates == {<<2024, 1, 1>>, <<2024, 1, 31>>, <<2024, 3, 1>>}

TwoDigits ==
    <<"01", "02", "03", "04", "05", "06", "07", "08", "09", "10", "11", "12",
      "13", "14", "15", "16", "17", "18", "19", "20", "21", "22", "23", "24",
      "25", "26", "27", "28", "29", "30", "31">>

Year4(y) == IF y = 2024 THEN "2024" ELSE IF y = 2023 THEN "2023" ELSE "2025"

\* strftime('%Y-%m-%d')
DateWord(f) == Year4(f[1]) \o "-" \o TwoDigits[f[2]] \o "-" \o TwoDigits[f[3]]

DateWords == {DateWord(f) : f \in ModelDates}

\* strptime(w, '%Y-%m-%d') of a word that is a date.
DateFields(w) == CHOOSE f \in ModelDates : DateWord(f) = w

\* strftime('%Y_%m')
YearMonth(w) == LET f == DateFields(w) IN Year4(f[1]) \o "_" \o TwoDigits[f[2]]

\* strftime('%Y_%m_%d')
YearMonthDay(w) == YearMonth(w) \o "_" \o TwoDigits[DateFields(w)[3]]

IsLeap(y) == (y % 4 = 0 /\ y % 100 # 0) \/ y % 400 = 0

DaysInMonth(y, m) ==
    IF m = 2 THEN (IF IsLeap(y) THEN 29 ELSE 28)
    ELSE IF m \in {4, 6, 9, 11} THEN 30 ELSE 31

RECURSIVE DaysBeforeMonth(_, _)
DaysBeforeMonth(y, m) ==
    IF m = 1 THEN 0 ELSE DaysBeforeMonth(y, m - 1) + DaysInMonth(y, m - 1)

\* Days since 2024-01-01 (the model's dates are all of 2024).
Ordinal(w) ==
    LET f == DateFields(w) IN DaysBeforeMonth(f[1], f[2]) + f[3] - 1

\* The time of day, in half days: "00:00:00" is 0, "12:00:00" is 1.
TimeWords == {"00:00:00", "12:00:00"}

HalfDays(t) == IF t = "00:00:00" THEN 0 ELSE 1

\* A datetime as a count of half days.
Instant(w, t) == 2 * Ordinal(w) + HalfDays(t)

\* datetime.strptime(s, '%Y-%m-%d') succeeds: the text is one date and nothing else.
ParsesAsDate(s) == Len(s) = 1 /\ s[1] \in DateWords

(***************************************************************************)
(* Token text.                                                             *)
(***************************************************************************)
\* str.replace(' ', '_')
RECURSIVE ReplaceSpaces(_)
ReplaceSpaces(s) ==
    IF s = <<>> THEN <<>>
    ELSE <<IF Head(s) = " " THEN "_" ELSE Head(s)>> \o ReplaceSpaces(Tail(s))

RECURSIVE DropSpaces(_)
DropSpaces(s) ==
    IF s = <<>> THEN <<>>
    ELSE IF Head(s) = " " THEN DropSpaces(Tail(s)) ELSE s

RECURSIVE TakeWord(_)
TakeWord(s) ==
    IF s = <<>> THEN <<>>
    ELSE IF Head(s) = " " THEN <<>> ELSE <<Head(s)>> \o TakeWord(Tail(s))

\* str.split()[0]; <<>> stands for the IndexError of a blank string.
SplitFirst(s) == TakeWord(DropSpaces(s))

\* A pandas Timestamp (it has strftime): <<"<Timestamp>", date, time>>.
Timestamp(w, t) == <<"<Timestamp>", w, t>>

IsTimestamp(v) == Len(v) = 3 /\ v[1] = "<Timestamp>"

\* f.endswith('.json')
EndsWithJson(fname) == Len(fname) > 0 /\ fname[Len(fname)] = ".json"

(***************************************************************************)
(* The store.  A path is [dir, sub, fname]: officer_reports/dir/fname when *)
(* sub is <<>>, officer_reports/dir/sub[1]/sub[2]/fname otherwise.         *)
(***************************************************************************)
VARIABLES
    dirs,       \* the directories directly under officer_reports
    files,      \* path -> document, for the paths that hold a file
    now,        \* the clock: [date, time]
    nextId,     \* the uuid4 values handed out so far
    ev,         \* the last operation and what it saved
    tasks,      \* task_id -> document, for the files tasks/task_{task_id}.json
    sec,        \* the seconds of the clock that stamps a new task
    wr,         \* the sessions in the middle of a handler: what each holds
    view,       \* what the last load returned and reported
    remote      \* the rows of the hosted 'reports' table, by id

vars == <<dirs, files, now, nextId, ev, tasks, sec, wr, view, remote>>

Path(dir, sub, fname) == [dir |-> dir, sub |-> sub, fname |-> fname]

\* The absent document.
NoDoc == <<>>

Has(doc, k) == k \in DOMAIN doc

\* dict.get(k, default)
Get(doc, k, default) == IF Has(doc, k) THEN doc[k] ELSE default

\* dict.update / item assignment
Put(doc, upd) == [k \in DOMAIN doc \cup DOMAIN upd |->
                    IF k \in DOMAIN upd THEN upd[k] ELSE doc[k]]

\* open(path, 'x'): an existing file is kept.
WriteFileExclusive(fs, p, doc) ==
    [q \in DOMAIN fs \cup {p} |-> IF q \in DOMAIN fs THEN fs[q] ELSE doc]

WriteFile(fs, p, doc) == [q \in DOMAIN fs \cup {p} |-> IF q = p THEN doc ELSE fs[q]]

RemoveFile(fs, p) == [q \in DOMAIN fs \ {p} |-> fs[q]]

\* os.listdir(officer_reports/dir), files only.
FilesIn(fs, dir) == {p \in DOMAIN fs : p.dir = dir /\ p.sub = <<>>}

\* The content of a file that json.load rejects: text of the given number of
\* characters that is not one JSON document.
Garbage(size) == "<not json>" :> size

IsJson(content) == ~Has(content, "<not json>")

\* The file name of a template, which load_reports leaves out.
TemplateJson == <<"template", ".json">>

\* json.loads(json.dumps(report_data, default=...)): a value with strftime
\* becomes its '%Y-%m-%d' text.
JsonRoundTrip(doc) ==
    [k \in DOMAIN doc |->
        IF k \in {"date", "type"} /\ IsTimestamp(doc[k]) THEN <<doc[k][2]>> ELSE doc[k]]

(***************************************************************************)
(* save_report(officer_name, report_data), as the directories and files it *)
(* leaves, the path it wrote and the document it wrote there.              *)
(***************************************************************************)
SaveDefaults(report_data) ==
    LET d1 == IF Has(report_data, "status") THEN report_data
              ELSE Put(report_data, "status" :> "Pending Review")
    IN  IF Has(d1, "comments") THEN d1 ELSE Put(d1, "comments" :> <<>>)

FormattedDate(report_date) ==
    IF IsTimestamp(report_date) THEN <<report_date[2]>> ELSE SplitFirst(report_date)

\* The file name without its extension.
ReportFilenameNoJson(formatted_date, type) ==
    formatted_date \o <<"_">> \o ReplaceSpaces(type)

ReportFilename(formatted_date, type) ==
    formatted_date \o <<"_">> \o ReplaceSpaces(type) \o <<".json">>

SaveReport(ds, fs, officer_name, report_data) ==
    LET d1 == SaveDefaults(report_data)
        report_date == d1["date"]
        formatted_date == FormattedDate(report_date)
        d2 == IF IsTimestamp(report_date) THEN Put(d1, "date" :> formatted_date) ELSE d1
        filepath == Path(officer_name, <<>>, ReportFilename(formatted_date, d2["type"]))
        d3 == JsonRoundTrip(d2)
        raised == formatted_date = <<>>
    IN  [raised   |-> raised,
         dirs     |-> ds \cup {officer_name},
         files    |-> IF raised THEN fs ELSE WriteFile(fs, filepath, d3),
         filepath |-> filepath,
         report   |-> d3]

(***************************************************************************)
(* load_reports(officer_folder): the documents read, in listing order.     *)
(***************************************************************************)
\* os.listdir order: some fixed order of the set.
RECURSIVE Listing(_)
Listing(S) ==
    IF S = {} THEN <<>>
    ELSE LET x == CHOOSE y \in S : TRUE IN <<x>> \o Listing(S \ {x})

ReportFiles(fs, officer_folder) ==
    {p \in FilesIn(fs, officer_folder) : EndsWithJson(p.fname) /\ p.fname # TemplateJson}

\* One document as load_reports returns it.
Loaded(doc, officer_folder) ==
    IF Has(doc, "officer_name") THEN doc ELSE Put(doc, "officer_name" :> officer_folder)

\* The loop over one folder's files with the try inside it: a file that
\* json.load rejects is reported and the loop goes on.
RECURSIVE LoadFolder(_, _, _)
LoadFolder(fs, officer_folder, listing) ==
    IF listing = <<>> THEN <<>>
    ELSE (IF IsJson(fs[Head(listing)])
          THEN <<Loaded(fs[Head(listing)], officer_folder)>>
          ELSE <<>>)
         \o LoadFolder(fs, officer_folder, Tail(listing))

\* The errors of a load that lists the folder without testing os.path.isdir:
\* os.listdir of a missing folder raises and the outer except reports it.
LoadErrorsUntested(ds, fs, officer_folder) ==
    IF officer_folder \notin ds THEN {Path(officer_folder, <<>>, <<>>)}
    ELSE {p \in ReportFiles(fs, officer_folder) : ~IsJson(fs[p])}

\* The files load_reports shows st.error for.
LoadErrors(ds, fs, officer_folder) ==
    IF officer_folder \in ds /\ officer_folder \notin ADDITIONAL_FOLDERS
    THEN {p \in ReportFiles(fs, officer_folder) : ~IsJson(fs[p])}
    ELSE {}

LoadReportsOf(ds, fs, officer_folder) ==
    IF officer_folder \in ds /\ officer_folder \notin ADDITIONAL_FOLDERS
    THEN LoadFolder(fs, officer_folder, Listing(ReportFiles(fs, officer_folder)))
    ELSE <<>>

\* The loop over the folders without the test for the reserved names.
RECURSIVE LoadFoldersUnfiltered(_, _, _)
LoadFoldersUnfiltered(ds, fs, listing) ==
    IF listing = <<>> THEN <<>>
    ELSE LoadFolder(fs, Head(listing), Listing(ReportFiles(fs, Head(listing))))
         \o LoadFoldersUnfiltered(ds, fs, Tail(listing))

RECURSIVE LoadFolders(_, _, _)
LoadFolders(ds, fs, listing) ==
    IF listing = <<>> THEN <<>>
    ELSE LET officer_folder == Head(listing)
         IN  (IF officer_folder \in ADDITIONAL_FOLDERS THEN <<>>
              ELSE LoadFolder(fs, officer_folder, Listing(ReportFiles(fs, officer_folder))))
             \o LoadFolders(ds, fs, Tail(listing))

LoadReportsAll(ds, fs) == LoadFolders(ds, fs, Listing(ds))

(***************************************************************************)
(* What the forms offer.                                                   *)
(***************************************************************************)
\* Names typed into "Enter New Officer Name".
NewOfficers == {"Alice", "Bob"}

\* The report types of submit_report's selectbox (two of the three).
ReportCategories ==
    {<<"Schedule", " ", "Upload", " ", "Report">>, <<"Other", " ", "Report">>}

\* Tasks, challenges and solutions as typed.
Narratives ==
    {[tasks |-> "patrol", challenges |-> "rain", solutions |-> "coat"],
     [tasks |-> "desk", challenges |-> "", solutions |-> ""]}

\* Review notes as typed.
ReviewNotes == {"redo"}

\* str(uuid.uuid4()) of the n-th call.
Uuid4(n) == <<"uuid-1", "uuid-2", "uuid-3", "uuid-4", "uuid-5", "uuid-6">>[n]

\* datetime.now().strftime("%Y-%m-%d %H:%M:%S")
NowText(clock) == clock.d \o " " \o clock.t

NoPath == Path("", <<>>, <<>>)

\* The last operation: its name, the folder it saved under, the path it wrote,
\* the path of the report it acted on and the record save_report serialised.
Event(op, officer, path, src, report) ==
    [op |-> op, officer |-> officer, path |-> path, src |-> src, report |-> report]

FileAt(fs, p) == IF p \in DOMAIN fs THEN fs[p] ELSE NoDoc

\* The browser sessions that may save at the same time.
Sessions == {"s1", "s2"}

\* A session that is not inside save_report.
Idle == [pc |-> "idle", path |-> NoPath, doc |-> NoDoc]

\* Nothing loaded yet.
NoView == [reports |-> <<>>, errors |-> {}, raised |-> FALSE]

\* An empty store on 2024-03-01, at the time of day t.
InitAt(t) ==
    /\ dirs = {}
    /\ files = <<>>
    /\ now = [d |-> "2024-03-01", t |-> t]
    /\ nextId = 0
    /\ ev = Event("init", "", NoPath, NoPath, NoDoc)
    /\ tasks = <<>>
    /\ sec = 0
    /\ wr = [w \in Sessions |-> Idle]
    /\ view = NoView
    /\ remote = <<>>

Init == InitAt("12:00:00")

SweepInit == \E t \in TimeWords : InitAt(t)

\* The officer folders submit_report, edit_report and create_dashboard list.
OfficerFolders(ds) == {d \in ds : d \notin ADDITIONAL_FOLDERS}

(***************************************************************************)
(* submit_report                                                           *)
(***************************************************************************)
\* "+ Add New Officer" with a name typed: the folder is made as the page renders.
TypeNewOfficer(new_officer) ==
    /\ new_officer \notin dirs
    /\ dirs' = dirs \cup {new_officer}
    /\ ev' = Event("new_officer", new_officer, NoPath, NoPath, NoDoc)
    /\ UNCHANGED <<files, now, nextId, tasks, sec, wr, view, remote>>

AttachmentPath(officer_name, selected_date, name) ==
    "officer_reports/Attachments/" \o officer_name \o "/"
        \o YearMonthDay(selected_date) \o "/" \o name

\* A submission stored as already approved.
SubmittedReportApproved(id, report_category, selected_date, officer_name, text, attachment_paths, clock) ==
    [id |-> id, type |-> report_category, date |-> <<selected_date>>,
     officer_name |-> officer_name, tasks |-> text.tasks,
     challenges |-> text.challenges, solutions |-> text.solutions,
     attachments |-> attachment_paths, status |-> "Approved",
     submission_date |-> NowText(clock), review_date |-> None,
     reviewer_notes |-> None, priority |-> "Normal", company_name |-> "Acme"]

SubmittedReport(id, report_category, selected_date, officer_name, text, attachment_paths, clock) ==
    LET common ==
            [id |-> id, type |-> report_category, date |-> <<selected_date>>,
             officer_name |-> officer_name, tasks |-> text.tasks,
             challenges |-> text.challenges, solutions |-> text.solutions,
             attachments |-> attachment_paths, status |-> "Pending Review",
             submission_date |-> NowText(clock), review_date |-> None,
             reviewer_notes |-> None, priority |-> "Normal"]
    IN  IF report_category = <<"Schedule", " ", "Upload", " ", "Report">>
        THEN Put(common, [frequency |-> "Daily", company_name |-> "Acme",
                          total_schedule_files |-> "0", total_years |-> "0"])
        ELSE Put(common, [company_name |-> "Acme"])

\* The "Submit Report" button with an officer chosen and tasks filled in.
SubmitReport(officer_name, selected_date, report_category, text, uploaded_files) ==
    /\ nextId < MaxReports
    /\ officer_name \notin {"", "Select Officer...", "+ Add New Officer"}
    /\ Ordinal(selected_date) <= Ordinal(now.d)
    /\ text.tasks # ""
    /\ LET attachment_paths ==
               [i \in DOMAIN uploaded_files |->
                   AttachmentPath(officer_name, selected_date, uploaded_files[i])]
           ds1 == IF uploaded_files # <<>> THEN dirs \cup {officer_name, "Attachments"}
                  ELSE dirs \cup {officer_name}
           report_data == SubmittedReport(Uuid4(nextId + 1), report_category,
                              selected_date, officer_name, text, attachment_paths, now)
           saved == SaveReport(ds1, files, officer_name, report_data)
       IN  /\ dirs' = saved.dirs
           /\ files' = saved.files
           /\ ev' = Event("submit", officer_name, saved.filepath, saved.filepath, saved.report)
    /\ nextId' = nextId + 1
    /\ UNCHANGED <<now, tasks, sec, wr, view, remote>>

\* The "Submit Report" button when the operating system refuses the write
\* inside save_report: open raises, or the file is opened and json.dump (or
\* the close that flushes it) raises. The except branch shows the message.
SubmitReportFails(officer_name, selected_date, report_category, text, uploaded_files, at) ==
    /\ nextId < MaxReports
    /\ officer_name \notin {"", "Select Officer...", "+ Add New Officer"}
    /\ Ordinal(selected_date) <= Ordinal(now.d)
    /\ text.tasks # ""
    /\ at \in {"open", "dump"}
    /\ LET attachment_paths ==
               [i \in DOMAIN uploaded_files |->
                   AttachmentPath(officer_name, selected_date, uploaded_files[i])]
           ds1 == IF uploaded_files # <<>> THEN dirs \cup {officer_name, "Attachments"}
                  ELSE dirs \cup {officer_name}
           report_data == SubmittedReport(Uuid4(nextId + 1), report_category,
                              selected_date, officer_name, text, attachment_paths, now)
           saved == SaveReport(ds1, files, officer_name, report_data)
       IN  /\ dirs' = saved.dirs
           /\ files' = IF at = "dump" THEN WriteFile(files, saved.filepath, Garbage(0))
                       ELSE files
           /\ ev' = Event("submit_failed", officer_name, saved.filepath, saved.filepath,
                          saved.report)
    /\ nextId' = nextId + 1
    /\ UNCHANGED <<now, tasks, sec, wr, view, remote>>

(***************************************************************************)
(* edit_report: "Save Changes" on one of the officer's reports.            *)
(***************************************************************************)
\* An edit form shown for every report.
EditableAlways(report) == TRUE

Editable(report) == Get(report, "status", None) \in {"Needs Attention", "Pending Review"}

\* The form's fields written back over the loaded report; the type's own
\* fields are left as the form showed them.
\* An edit that sends the report back to review.
EditedReportResubmitted(report, text, clock) ==
    Put(report, [tasks |-> text.tasks, challenges |-> text.challenges,
                 solutions |-> text.solutions, last_edited |-> NowText(clock),
                 status |-> "Pending Review"])

EditedReport(report, text, clock) ==
    LET typed ==
            IF report["type"] = <<"Schedule", " ", "Upload", " ", "Report">>
            THEN Put(report, [company_name |-> Get(report, "company_name", ""),
                              total_schedule_files |-> Get(report, "total_schedule_files", "0"),
                              total_years |-> Get(report, "total_years", "0")])
            ELSE IF report["type"] = <<"Global", " ", "Deposit", " ", "Assigning">>
            THEN Put(report, [companies_assigned |-> Get(report, "companies_assigned", ""),
                              total_companies |-> Get(report, "total_companies", "0")])
            ELSE Put(report, [company_name |-> Get(report, "company_name", "")])
    IN  Put(typed, [tasks |-> text.tasks, challenges |-> text.challenges,
                    solutions |-> text.solutions, last_edited |-> NowText(clock)])

EditSave(officer_name, p, text) ==
    /\ officer_name \in OfficerFolders(dirs)
    /\ p \in ReportFiles(files, officer_name)
    /\ LET report == Loaded(files[p], officer_name)
       IN  /\ Editable(report)
           /\ LET saved == SaveReport(dirs, files, officer_name,
                                      EditedReport(report, text, now))
              IN  /\ dirs' = saved.dirs
                  /\ files' = saved.files
                  /\ ev' = Event("edit", officer_name, saved.filepath, p, saved.report)
    /\ UNCHANGED <<now, nextId, tasks, sec, wr, view, remote>>

(***************************************************************************)
(* review_reports: the buttons on a report pending review.                 *)
(***************************************************************************)
\* load_reports() as (path, report) pairs: the reports review_reports shows.
AllReportPaths(ds, fs) ==
    UNION {{p \in ReportFiles(fs, d) : IsJson(fs[p])} : d \in OfficerFolders(ds)}

\* A review that stamps no review_date.
ReviewedUnstamped(report, status, review_date, notes) ==
    Put(report, [status |-> status, reviewer_notes |-> notes])

Reviewed(report, status, review_date, notes) ==
    Put(report, [status |-> status, review_date |-> review_date, reviewer_notes |-> notes])

ReviewSave(op, p, report, target) ==
    LET saved == SaveReport(dirs, files, target, report)
    IN  /\ dirs' = saved.dirs
        /\ files' = saved.files
        /\ ev' = Event(op, target, saved.filepath, p, saved.report)
        /\ UNCHANGED <<now, nextId, tasks, sec, wr, view, remote>>

ReviewApprove(p, notes) ==
    /\ p \in AllReportPaths(dirs, files)
    /\ LET report == Loaded(files[p], p.dir)
       IN  /\ Get(report, "status", None) = "Pending Review"
           /\ ReviewSave("approve", p,
                         Reviewed(report, "Approved", NowText(now), notes),
                         Get(report, "officer_name", "Unknown"))

ReviewNeedsAttention(p, notes) ==
    /\ p \in AllReportPaths(dirs, files)
    /\ LET report == Loaded(files[p], p.dir)
       IN  /\ Get(report, "status", None) = "Pending Review"
           /\ ReviewSave("attention", p,
                         Reviewed(report, "Needs Attention", NowText(now), notes),
                         Get(report, "officer_name", "Unknown"))

(***************************************************************************)
(* create_dashboard: the review tabs, over the rows of the DataFrame built *)
(* from every officer's reports.                                           *)
(***************************************************************************)
\* pd.to_datetime of a date text: a date, or a date and a time.
CanToDatetime(s) ==
    \/ ParsesAsDate(s)
    \/ Len(s) = 3 /\ s[1] \in DateWords /\ s[2] = " " /\ s[3] \in TimeWords

ToDatetime(s) == Timestamp(s[1], IF Len(s) = 3 THEN s[3] ELSE "00:00:00")

\* Timestamp.dayofweek (2024-01-01 is a Monday) and Timestamp.hour, as text.
DayOfWeek(ts) == <<"0", "1", "2", "3", "4", "5", "6">>[(Ordinal(ts[2]) % 7) + 1]

Hour(ts) == IF ts[3] = "00:00:00" THEN "0" ELSE "12"

\* The columns of pd.DataFrame(all_reports): every key of every report.
Columns(fs, paths) == UNION {DOMAIN Loaded(fs[q], q.dir) : q \in paths}

\* df.to_dict('records') for the row of the report at p, after the date, dow
\* and hour columns are set.
DashboardRow(fs, paths, p) ==
    LET report == Loaded(fs[p], p.dir)
        row == [k \in Columns(fs, paths) |-> IF Has(report, k) THEN report[k] ELSE NaN]
        ts == ToDatetime(report["date"])
    IN  Put(row, [date |-> ts, dow |-> DayOfWeek(ts), hour |-> Hour(ts)])

\* The rows a tab shows: the first five with the tab's status.
TabPaths(ds, fs, status) ==
    LET listing == Listing(AllReportPaths(ds, fs))
        shown == SelectSeq(listing, LAMBDA q : Get(Loaded(fs[q], q.dir), "status", None) = status)
    IN  {shown[i] : i \in 1..(IF Len(shown) < 5 THEN Len(shown) ELSE 5)}

DashboardRenders(ds, fs) ==
    /\ AllReportPaths(ds, fs) # {}
    /\ \A q \in AllReportPaths(ds, fs) :
          LET r == Loaded(fs[q], q.dir) IN Has(r, "date") /\ CanToDatetime(r["date"])

DashboardApprove(p, notes) ==
    /\ DashboardRenders(dirs, files)
    /\ p \in TabPaths(dirs, files, "Pending Review")
    /\ LET report == DashboardRow(files, AllReportPaths(dirs, files), p)
       IN  ReviewSave("dashboard_approve", p,
                      Reviewed(report, "Approved", now.d, notes), report["officer_name"])

DashboardNeedsAttention(p, notes) ==
    /\ DashboardRenders(dirs, files)
    /\ p \in TabPaths(dirs, files, "Pending Review")
    /\ LET report == DashboardRow(files, AllReportPaths(dirs, files), p)
       IN  ReviewSave("dashboard_attention", p,
                      Reviewed(report, "Needs Attention", now.d, notes),
                      report["officer_name"])

\* "Mark as Approved" on the Needs Attention tab: the notes stay.
DashboardMarkApproved(p) ==
    /\ DashboardRenders(dirs, files)
    /\ p \in TabPaths(dirs, files, "Needs Attention")
    /\ LET report == DashboardRow(files, AllReportPaths(dirs, files), p)
       IN  ReviewSave("dashboard_mark_approved", p,
                      Put(report, [status |-> "Approved", review_date |-> now.d]),
                      report["officer_name"])

(***************************************************************************)
(* auto_archive_old_reports                                                *)
(***************************************************************************)
\* report_date < archive_before, for a document whose date parses; a missing
\* or unparseable date raises and the file is skipped.
ArchiveDue(doc, clock) ==
    /\ IsJson(doc)
    /\ Has(doc, "date")
    /\ ParsesAsDate(doc["date"])
    /\ Instant(doc["date"][1], "00:00:00") < Instant(clock.d, clock.t) - 2 * AUTO_ARCHIVE_DAYS

\* An archive path without the officer's folder.
ArchivePathFlat(p, doc) == Path("Archives", <<YearMonth(doc["date"][1])>>, p.fname)

\* os.path.join(REPORTS_DIR, "Archives", year_month, officer, report_file)
ArchivePath(p, doc) == Path("Archives", <<YearMonth(doc["date"][1]), p.dir>>, p.fname)

\* A sweep that walks every folder, the archive included.
SweepFilesWalk(ds, fs) == {p \in DOMAIN fs : EndsWithJson(p.fname)}

\* The files the sweep opens: every .json file of every officer folder.
SweepFiles(ds, fs) ==
    UNION {{p \in FilesIn(fs, officer) : EndsWithJson(p.fname)} :
              officer \in {d \in ds : d \notin ADDITIONAL_FOLDERS}}

\* shutil.move: the file leaves its path and replaces what the target held.
MoveFile(fs, from, to) == WriteFile(RemoveFile(fs, from), to, fs[from])

\* A sweep that moves nothing when any of its files raises.
RECURSIVE SweepOverRollback(_, _, _)
SweepOverRollback(fs, listing, clock) ==
    IF listing = <<>> THEN fs
    ELSE IF \E i \in 1..Len(listing) :
               \/ ~IsJson(fs[listing[i]])
               \/ ~Has(fs[listing[i]], "date")
               \/ ~ParsesAsDate(fs[listing[i]]["date"])
         THEN fs
         ELSE LET p == Head(listing)
              IN  SweepOverRollback(IF ArchiveDue(fs[p], clock)
                                    THEN MoveFile(fs, p, ArchivePath(p, fs[p])) ELSE fs,
                                    Tail(listing), clock)

RECURSIVE SweepOver(_, _, _)
SweepOver(fs, listing, clock) ==
    IF listing = <<>> THEN fs
    ELSE LET p == Head(listing)
             next == IF ArchiveDue(fs[p], clock)
                     THEN MoveFile(fs, p, ArchivePath(p, fs[p]))
                     ELSE fs
         IN  SweepOver(next, Tail(listing), clock)

\* The files the sweep shows st.error for: json.load, report_data['date'] or
\* strptime raised.
SweepErrors(ds, fs) ==
    {p \in SweepFiles(ds, fs) :
        ~IsJson(fs[p]) \/ ~Has(fs[p], "date") \/ ~ParsesAsDate(fs[p]["date"])}

\* The store after one run of the sweep.
Swept(ds, fs, clock) ==
    LET opened == SweepFiles(ds, fs)
    IN  [dirs  |-> IF \E p \in opened : ArchiveDue(fs[p], clock)
                   THEN ds \cup {"Archives"} ELSE ds,
         files |-> SweepOver(fs, Listing(opened), clock)]

AutoArchiveOldReports ==
    /\ dirs' = Swept(dirs, files, now).dirs
    /\ files' = Swept(dirs, files, now).files
    /\ ev' = Event("sweep", "", NoPath, NoPath, NoDoc)
    /\ UNCHANGED <<now, nextId, tasks, sec, wr, view, remote>>

(***************************************************************************)
(* The officer lists of the pages.                                         *)
(***************************************************************************)
\* d.startswith('.') or d.startswith('__'), over the names of the model.
Hidden(d) == d \in {"__pycache__", ".git"}

ViewReportsOfficerFolders(ds) == {d \in ds : d \notin SYSTEM_FOLDERS /\ ~Hidden(d)}

ManageFoldersOfficerFolders(ds) == {d \in ds : d \notin SYSTEM_FOLDERS /\ ~Hidden(d)}

\* show_report_type_distribution reads every directory.
DistributionFolders(ds) == ds

(***************************************************************************)
(* task_management_dash: the task files and the Task List page.            *)
(***************************************************************************)
TASK_STATUSES == <<"Pending", "In Progress", "Completed", "Overdue">>

\* The seconds the task clock can show after the first one.
MaxSeconds == 1

\* The comments one task can collect.
MaxComments == 2

\* datetime.now().strftime('%Y%m%d_%H%M%S') at the second sec.
Stamp(second) == <<"20240301_120000", "20240301_120001">>[second + 1]

\* os.path.join(TASK_DIR, f"task_{task_id}.json")
TaskFile(task_id) == "task_" \o task_id \o ".json"

\* save_task that keeps a file already there.
SaveTaskExclusive(ts, task_data, second) ==
    LET task_id == Get(task_data, "task_id", Stamp(second))
    IN  [f \in DOMAIN ts \cup {TaskFile(task_id)} |->
            IF f \in DOMAIN ts THEN ts[f] ELSE task_data]

\* save_task(task_data): the task files it leaves.
SaveTask(ts, task_data, second) ==
    LET task_id == Get(task_data, "task_id", Stamp(second))
    IN  [f \in DOMAIN ts \cup {TaskFile(task_id)} |->
            IF f = TaskFile(task_id) THEN task_data ELSE ts[f]]

\* task_management_dash.load_tasks: the try is inside the loop.
RECURSIVE LoadTasksOver(_, _)
LoadTasksOver(ts, listing) ==
    IF listing = <<>> THEN <<>>
    ELSE (IF IsJson(ts[Head(listing)]) THEN <<ts[Head(listing)]>> ELSE <<>>)
         \o LoadTasksOver(ts, Tail(listing))

LoadTasks(ts) == LoadTasksOver(ts, Listing(DOMAIN ts))

LoadTasksErrors(ts) == {f \in DOMAIN ts : ~IsJson(ts[f])}

\* officer_report_dash.load_tasks: the try is around the loop, so the first
\* file json.load rejects ends it.
RECURSIVE DashLoadTasksOver(_, _)
DashLoadTasksOver(ts, listing) ==
    IF listing = <<>> THEN <<>>
    ELSE IF IsJson(ts[Head(listing)])
         THEN <<ts[Head(listing)]>> \o DashLoadTasksOver(ts, Tail(listing))
         ELSE <<>>

\* os.listdir returns the names in any order.
Orders(S) == {o \in [1..Cardinality(S) -> S] : \A f \in S : \E i \in DOMAIN o : o[i] = f}

DashLoadTasks(ts, listing) == DashLoadTasksOver(ts, listing)

RECURSIVE FirstRejected(_, _)
FirstRejected(ts, listing) ==
    IF listing = <<>> THEN {}
    ELSE IF IsJson(ts[Head(listing)]) THEN FirstRejected(ts, Tail(listing))
         ELSE {Head(listing)}

DashLoadTasksErrors(ts, listing) == FirstRejected(ts, listing)

\* The task files the Task List page shows.
ShownTasks(ts) == {f \in DOMAIN ts : IsJson(ts[f])}

\* What is typed and picked in the task form.
TaskTitles == {"audit", "filing"}

StatusInputs == {"Pending", "Completed"}

CommentInputs == {"ok"}

TaskForm(task_id, title, status, final_assignee, created_date, comments, clock) ==
    [task_id |-> task_id, title |-> title, description |-> "", priority |-> "High",
     category |-> "Work", status |-> status, due_date |-> clock.d,
     assigned_to |-> final_assignee, created_date |-> created_date,
     comments |-> comments]

TaskEvent(op, task) == Event(op, "", NoPath, NoPath, task)

\* "Create Task": the form submitted with no task being edited.
CreateTask(title, assigned_to, new_assignee_name) ==
    /\ title # ""
    /\ ~(assigned_to = "Select Officer..." /\ new_assignee_name = "")
    /\ LET final_assignee ==
               IF new_assignee_name # "" THEN new_assignee_name ELSE assigned_to
           task_data == TaskForm(Stamp(sec), title, "Pending", final_assignee,
                                 now.d, <<>>, now)
       IN  /\ tasks' = SaveTask(tasks, task_data, sec)
           /\ ev' = TaskEvent("create_task", task_data)
    /\ dirs' = IF assigned_to = "+ Add New Assignee" /\ new_assignee_name # ""
               THEN dirs \cup {new_assignee_name} ELSE dirs
    /\ UNCHANGED <<files, now, nextId, sec, wr, view, remote>>

\* "Update Task": the form submitted for the task picked with Edit.
UpdateTask(f, title, status) ==
    /\ f \in ShownTasks(tasks)
    /\ title # ""
    /\ LET editing_task == tasks[f]
           task_data == TaskForm(editing_task["task_id"], title, status,
                                 editing_task["assigned_to"],
                                 editing_task["created_date"],
                                 Get(editing_task, "comments", <<>>), now)
       IN  /\ editing_task["assigned_to"] \in OfficerFolders(dirs)
           /\ tasks' = SaveTask(tasks, task_data, sec)
           /\ ev' = TaskEvent("update_task", task_data)
    /\ UNCHANGED <<dirs, files, now, nextId, sec, wr, view, remote>>

\* The "Update Status" selectbox moved to another status.
UpdateStatus(f, new_status) ==
    /\ f \in ShownTasks(tasks)
    /\ new_status # tasks[f]["status"]
    /\ LET task == Put(tasks[f], "status" :> new_status)
       IN  /\ tasks' = SaveTask(tasks, task, sec)
           /\ ev' = TaskEvent("task_status", task)
    /\ UNCHANGED <<dirs, files, now, nextId, sec, wr, view, remote>>

\* A comment list started afresh with the new comment.
WithOnlyComment(task, comment) == Put(task, "comments" :> <<comment>>)

\* task['comments'].append(...), after an empty list is put where none was.
WithComment(task, comment) ==
    Put(task, "comments" :> Append(Get(task, "comments", <<>>), comment))

\* "Add Comment" with a comment typed.
AddComment(f, new_comment) ==
    /\ f \in ShownTasks(tasks)
    /\ new_comment # ""
    /\ Len(Get(tasks[f], "comments", <<>>)) < MaxComments
    /\ LET comment == [date |-> now.d \o " 12:00", author |-> "User", text |-> new_comment]
           task == WithComment(tasks[f], comment)
       IN  /\ tasks' = SaveTask(tasks, task, sec)
           /\ ev' = TaskEvent("task_comment", task)
    /\ UNCHANGED <<dirs, files, now, nextId, sec, wr, view, remote>>

\* officer_report_dash.link_task_to_report(task_id, report_id)
LinkTaskToReport(task_id, report_id) ==
    /\ TaskFile(task_id) \in DOMAIN tasks
    /\ LET task_data == Put(tasks[TaskFile(task_id)], "linked_report" :> report_id)
       IN  /\ tasks' = [tasks EXCEPT ![TaskFile(task_id)] = task_data]
           /\ ev' = TaskEvent("link_task", task_data)
    /\ UNCHANGED <<dirs, files, now, nextId, sec, wr, view, remote>>

\* "Delete": os.remove of the task's file.
DeleteTask(f) ==
    /\ f \in ShownTasks(tasks)
    /\ TaskFile(tasks[f]["task_id"]) \in DOMAIN tasks
    /\ tasks' = [g \in DOMAIN tasks \ {TaskFile(tasks[f]["task_id"])} |-> tasks[g]]
    /\ ev' = TaskEvent("delete_task", tasks[f])
    /\ UNCHANGED <<dirs, files, now, nextId, sec, wr, view, remote>>

\* A second passes.
TickSecond ==
    /\ sec < MaxSeconds
    /\ sec' = sec + 1
    /\ ev' = TaskEvent("tick", NoDoc)
    /\ UNCHANGED <<dirs, files, now, nextId, tasks, wr, view, remote>>

(***************************************************************************)
(* save_report in two sessions at once: each session computes its record,  *)
(* opens the file with 'w', which empties it, and writes its JSON text     *)
(* from the start of the file when the with block closes it.               *)
(***************************************************************************)
RECURSIVE SumLen(_)
SumLen(words) == IF words = <<>> THEN 0 ELSE Len(Head(words)) + SumLen(Tail(words))

\* The characters json.dump writes for one value.
ValueSize(k, v) ==
    IF k \in {"date", "type"} THEN 2 + SumLen(v)
    ELSE IF k \in {"attachments", "comments"}
         THEN (IF v = <<>> THEN 2 ELSE 2 + SumLen(v) + 12 * Len(v))
    ELSE IF v = None THEN 4
    ELSE IF v = NaN THEN 3
    ELSE Len(v) + 2

RECURSIVE SizeOver(_, _)
SizeOver(doc, keys) ==
    IF keys = {} THEN 0
    ELSE LET k == CHOOSE x \in keys : TRUE
         IN  Len(k) + 10 + ValueSize(k, doc[k]) + SizeOver(doc, keys \ {k})

\* The length of json.dump(doc, indent=4).
JsonSize(doc) == 2 + SizeOver(doc, DOMAIN doc)

\* The length of what a file holds.
FileSize(content) == IF IsJson(content) THEN JsonSize(content) ELSE content["<not json>"]

\* What the file holds once text of a document is written from its start:
\* the document when the text covers what was there, and otherwise the text
\* followed by the rest of the old content, which is not JSON.
Overwritten(content, doc) ==
    IF FileSize(content) <= JsonSize(doc) THEN doc ELSE Garbage(FileSize(content))

\* edit_report up to the call of open: the record save_report is to write.
EditCompute(w, p, text) ==
    /\ wr[w].pc = "idle"
    /\ p \in AllReportPaths(dirs, files)
    /\ LET report == Loaded(files[p], p.dir)
       IN  /\ Editable(report)
           /\ LET saved == SaveReport(dirs, files, p.dir, EditedReport(report, text, now))
              IN  /\ dirs' = saved.dirs
                  /\ wr' = [wr EXCEPT ![w] = [pc |-> "computed", path |-> saved.filepath,
                                              doc |-> saved.report]]
    /\ ev' = Event("computed", p.dir, NoPath, p, NoDoc)
    /\ UNCHANGED <<files, now, nextId, tasks, sec, view, remote>>

\* review_reports' Approve up to the call of open.
ApproveCompute(w, p, notes) ==
    /\ wr[w].pc = "idle"
    /\ p \in AllReportPaths(dirs, files)
    /\ LET report == Loaded(files[p], p.dir)
       IN  /\ Get(report, "status", None) = "Pending Review"
           /\ LET saved == SaveReport(dirs, files, Get(report, "officer_name", "Unknown"),
                                      Reviewed(report, "Approved", NowText(now), notes))
              IN  /\ dirs' = saved.dirs
                  /\ wr' = [wr EXCEPT ![w] = [pc |-> "computed", path |-> saved.filepath,
                                              doc |-> saved.report]]
    /\ ev' = Event("computed", p.dir, NoPath, p, NoDoc)
    /\ UNCHANGED <<files, now, nextId, tasks, sec, view, remote>>

\* open(filepath, 'w')
SaveOpen(w) ==
    /\ wr[w].pc = "computed"
    /\ files' = WriteFile(files, wr[w].path, Garbage(0))
    /\ wr' = [wr EXCEPT ![w].pc = "open"]
    /\ ev' = Event("opened", wr[w].path.dir, wr[w].path, wr[w].path, NoDoc)
    /\ UNCHANGED <<dirs, now, nextId, tasks, sec, view, remote>>

\* json.dump(report_data, f, indent=4) and the end of the with block.
SaveDump(w) ==
    /\ wr[w].pc = "open"
    /\ files' = WriteFile(files, wr[w].path, Overwritten(files[wr[w].path], wr[w].doc))
    /\ wr' = [wr EXCEPT ![w] = Idle]
    /\ ev' = Event("saved", wr[w].path.dir, wr[w].path, wr[w].path, wr[w].doc)
    /\ UNCHANGED <<dirs, now, nextId, tasks, sec, view, remote>>

(***************************************************************************)
(* The pages that only load, and the files a run can find on disk.         *)
(***************************************************************************)
Viewed(op, subject, reports, errors) ==
    /\ view' = [reports |-> reports, errors |-> errors, raised |-> FALSE]
    /\ ev' = Event(op, subject, NoPath, NoPath, NoDoc)
    /\ UNCHANGED <<dirs, files, now, nextId, tasks, sec, wr, remote>>

\* load_reports(officer_folder)
ViewReports(officer_folder) ==
    Viewed("load_reports", officer_folder,
           LoadReportsOf(dirs, files, officer_folder),
           LoadErrors(dirs, files, officer_folder))

\* load_reports()
ViewAllReports ==
    Viewed("load_all", "", LoadReportsAll(dirs, files),
           UNION {LoadErrors(dirs, files, d) : d \in dirs})

\* task_management_dash.load_tasks()
ViewTasks == Viewed("load_tasks", "", LoadTasks(tasks), LoadTasksErrors(tasks))

\* officer_report_dash.load_tasks()
ViewTasksDash(listing) ==
    Viewed("dash_load_tasks", "", DashLoadTasks(tasks, listing),
           DashLoadTasksErrors(tasks, listing))

\* A page that builds its figures from reports: the reports that went into
\* them, the files it showed a message for, and whether it raised instead.
Aggregated(op, reports, errors, raised) ==
    /\ view' = [reports |-> IF raised THEN <<>> ELSE reports, errors |-> errors,
                raised |-> raised]
    /\ ev' = Event(op, "", NoPath, NoPath, NoDoc)
    /\ UNCHANGED <<dirs, files, now, nextId, tasks, sec, wr, remote>>

\* df['date'] = pd.to_datetime(df['date']) raises: no report has a date, or
\* some date text is not a date.
ToDatetimeRaises(reports) ==
    \/ \A i \in 1..Len(reports) : ~Has(reports[i], "date")
    \/ \E i \in 1..Len(reports) :
          Has(reports[i], "date") /\ ~CanToDatetime(reports[i]["date"])

\* generate_summary() for all officers and all time.
GenerateSummary ==
    LET reports == LoadReportsAll(dirs, files)
    IN  Aggregated("generate_summary", reports,
                   UNION {LoadErrors(dirs, files, d) : d \in dirs},
                   reports # <<>> /\ ToDatetimeRaises(reports))

\* create_dashboard() up to the DataFrame it draws from.
CreateDashboard ==
    LET reports == LoadReportsAll(dirs, files)
    IN  Aggregated("create_dashboard", reports,
                   UNION {LoadErrors(dirs, files, d) : d \in dirs},
                   reports # <<>> /\ ToDatetimeRaises(reports))

\* start_date <= report_date <= end_date
InRange(w, start_date, end_date) ==
    Ordinal(start_date) <= Ordinal(w) /\ Ordinal(w) <= Ordinal(end_date)

\* generate_report_summaries(): the reports whose date strptime reads and
\* that lie in the range picked.
GenerateReportSummaries(start_date, end_date) ==
    LET reports == LoadReportsAll(dirs, files)
        dated(r) == Has(r, "date") /\ ParsesAsDate(r["date"])
        filtered == SelectSeq(reports,
                        LAMBDA r : dated(r) /\ InRange(r["date"][1], start_date, end_date))
    IN  Aggregated("generate_report_summaries", filtered,
                   UNION {LoadErrors(dirs, files, d) : d \in dirs}
                       \cup {p \in AllReportPaths(dirs, files) :
                                 ~dated(Loaded(files[p], p.dir))},
                   FALSE)

\* PerformanceDashboard.load_performance_data: it reads the files itself.
RECURSIVE PerformanceRows(_, _, _, _)
PerformanceRows(fs, listing, start_date, end_date) ==
    IF listing = <<>> THEN <<>>
    ELSE LET report == fs[Head(listing)]
             kept == /\ IsJson(report)
                     /\ Has(report, "date") /\ CanToDatetime(report["date"])
                     /\ Has(report, "submission_date")
                     /\ InRange(report["date"][1], start_date, end_date)
         IN  (IF kept THEN <<report>> ELSE <<>>)
             \o PerformanceRows(fs, Tail(listing), start_date, end_date)

LoadPerformanceData(start_date, end_date) ==
    LET opened == SweepFiles(dirs, files)
    IN  Aggregated("load_performance_data",
                   PerformanceRows(files, Listing(opened), start_date, end_date),
                   {p \in opened :
                       \/ ~IsJson(files[p])
                       \/ ~Has(files[p], "date") \/ ~CanToDatetime(files[p]["date"])
                       \/ ~Has(files[p], "submission_date")},
                   FALSE)

OtherReport == <<"Other", " ", "Report">>

\* A report as an earlier submission stored it.
FoundReport(officer, date) ==
    SaveReport({}, <<>>, officer,
               SubmittedReport("uuid-0", OtherReport, date, officer,
                               [tasks |-> "patrol", challenges |-> "rain",
                                solutions |-> "coat"],
                               <<>>, [d |-> date, t |-> "12:00:00"])).report

\* A date text that strptime and pd.to_datetime both reject.
UnreadableDate == <<"unknown">>

OldName == ReportFilename(<<"2024-01-01">>, OtherReport)
RecentName == ReportFilename(<<"2024-03-01">>, OtherReport)
UnreadableName == ReportFilename(<<"undated">>, OtherReport)
TornName == ReportFilename(<<"2024-01-31">>, OtherReport)

\* The report files a run can find: written by earlier runs, restored from
\* the backup, copied in by hand or cut short while being written.
FoundPaths ==
    {Path("Alice", <<>>, f) : f \in {OldName, RecentName, UnreadableName, TornName}}
        \cup {Path("Bob", <<>>, f) : f \in {OldName, UnreadableName}}

FoundContent(p) ==
    IF p.fname = OldName THEN FoundReport(p.dir, "2024-01-01")
    ELSE IF p.fname = RecentName THEN FoundReport(p.dir, "2024-03-01")
    ELSE IF p.fname = UnreadableName
         THEN Put(FoundReport(p.dir, "2024-01-01"), "date" :> UnreadableDate)
    ELSE Garbage(40)

\* The task files a run can find.
FoundTaskFiles == {TaskFile(Stamp(0)), TaskFile(Stamp(1)), TaskFile("torn")}

FoundTask(f) ==
    IF f = TaskFile("torn") THEN Garbage(40)
    ELSE TaskForm(IF f = TaskFile(Stamp(0)) THEN Stamp(0) ELSE Stamp(1), "audit",
                  "Pending", "Alice", "2024-03-01", <<>>,
                  [d |-> "2024-03-01", t |-> "12:00:00"])

FoundInit ==
    /\ dirs = NewOfficers
    /\ \E S \in SUBSET FoundPaths : files = [p \in S |-> FoundContent(p)]
    /\ \E S \in SUBSET FoundTaskFiles : tasks = [f \in S |-> FoundTask(f)]
    /\ now = [d |-> "2024-03-01", t |-> "12:00:00"]
    /\ nextId = 0
    /\ ev = Event("init", "", NoPath, NoPath, NoDoc)
    /\ sec = 0
    /\ wr = [w \in Sessions |-> Idle]
    /\ view = NoView
    /\ remote = <<>>

(***************************************************************************)
(* supabase_config: the hosted table, backup and restore.                  *)
(***************************************************************************)
\* The uuid4 values one run can hand out.
MaxIds == 4

\* table('reports').upsert(row): the row replaces the one with its id.
Upsert(rows, row) ==
    [i \in DOMAIN rows \cup {row.id} |-> IF i = row.id THEN row ELSE rows[i]]

\* save_report_to_supabase raises before the upsert and returns False.
SupabaseRejects(report_data) ==
    \/ ~Has(report_data, "date")
    \/ ~Has(report_data, "type")
    \/ (~IsTimestamp(report_data["date"]) /\ SplitFirst(report_data["date"]) = <<>>)

\* The columns of the row that restore_from_supabase reads back.
SupabaseData(officer_name, report_data) ==
    [id |-> report_data["id"], officer_name |-> officer_name,
     date |-> FormattedDate(report_data["date"]), report_data |-> report_data]

\* save_report_to_supabase(officer_name, report_data) with n ids handed out:
\* the rows afterwards and the ids handed out afterwards.
SaveReportToSupabase(rows, officer_name, report_data, n) ==
    LET fresh == ~Has(report_data, "id")
        d1 == IF fresh THEN Put(report_data, "id" :> Uuid4(n + 1)) ELSE report_data
        n1 == IF fresh THEN n + 1 ELSE n
    IN  IF SupabaseRejects(d1) THEN [rows |-> rows, n |-> n1]
        ELSE [rows |-> Upsert(rows, SupabaseData(officer_name, d1)), n |-> n1]

\* auto_backup_to_supabase: the try is inside the loop over the files.
RECURSIVE AutoBackupOver(_, _, _, _)
AutoBackupOver(rows, fs, listing, n) ==
    IF listing = <<>> THEN [rows |-> rows, n |-> n]
    ELSE IF ~IsJson(fs[Head(listing)])
         THEN AutoBackupOver(rows, fs, Tail(listing), n)
         ELSE LET saved == SaveReportToSupabase(rows, Head(listing).dir,
                                                fs[Head(listing)], n)
              IN  AutoBackupOver(saved.rows, fs, Tail(listing), saved.n)

\* sync_local_to_supabase: the try is around both loops.
RECURSIVE SyncOver(_, _, _, _)
SyncOver(rows, fs, listing, n) ==
    IF listing = <<>> \/ ~IsJson(fs[Head(listing)]) THEN [rows |-> rows, n |-> n]
    ELSE LET saved == SaveReportToSupabase(rows, Head(listing).dir, fs[Head(listing)], n)
         IN  SyncOver(saved.rows, fs, Tail(listing), saved.n)

\* The ids a pass over the listed files hands out at most.
Fresh(fs, listing) ==
    Cardinality({i \in DOMAIN listing :
                    IsJson(fs[listing[i]]) /\ ~Has(fs[listing[i]], "id")})

AutoBackupToSupabase(listing) ==
    /\ nextId + Fresh(files, listing) <= MaxIds
    /\ LET done == AutoBackupOver(remote, files, listing, nextId)
       IN  /\ remote' = done.rows
           /\ nextId' = done.n
    /\ ev' = Event("auto_backup", "", NoPath, NoPath, NoDoc)
    /\ UNCHANGED <<dirs, files, now, tasks, sec, wr, view>>

SyncLocalToSupabase(listing) ==
    /\ nextId + Fresh(files, listing) <= MaxIds
    /\ LET done == SyncOver(remote, files, listing, nextId)
       IN  /\ remote' = done.rows
           /\ nextId' = done.n
    /\ ev' = Event("sync", "", NoPath, NoPath, NoDoc)
    /\ UNCHANGED <<dirs, files, now, tasks, sec, wr, view>>

\* restore_from_supabase over the rows in the order select('*') returned
\* them: the directories and files afterwards.
RECURSIVE RestoreOver(_, _, _, _)
RestoreOver(ds, fs, rows, listing) ==
    IF listing = <<>> THEN [dirs |-> ds, files |-> fs]
    ELSE LET report == rows[Head(listing)]
             report_data == report.report_data
             filepath == Path(report.officer_name, <<>>,
                              ReportFilename(report.date, report_data["type"]))
         IN  RestoreOver(ds \cup {report.officer_name},
                         WriteFile(fs, filepath, report_data), rows, Tail(listing))

RestoreFromSupabase(listing) ==
    /\ remote # <<>>
    /\ LET done == RestoreOver(dirs, files, remote, listing)
       IN  /\ dirs' = done.dirs
           /\ files' = done.files
    /\ ev' = Event("restore", "", NoPath, NoPath, NoDoc)
    /\ UNCHANGED <<now, nextId, tasks, sec, wr, view, remote>>

\* The local store is gone: a new deployment starts from an empty directory.
LocalStoreLost ==
    /\ files # <<>>
    /\ dirs' = {}
    /\ files' = <<>>
    /\ ev' = Event("redeployed", "", NoPath, NoPath, NoDoc)
    /\ UNCHANGED <<now, nextId, tasks, sec, wr, view, remote>>

\* A report written by report_form, which gives it no id.
FormReport ==
    SaveReport({}, <<>>, "Alice",
               [type |-> OtherReport, frequency |-> "Daily", officer_name |-> "Alice",
                date |-> <<"2024-02-20">>, company_name |-> "Acme", tasks |-> "patrol",
                challenges |-> "rain", solutions |-> "coat"])

\* The store a backup can find: nothing, or files written before this run.
BackupInit ==
    /\ dirs = {"Alice"}
    /\ \E S \in SUBSET {Path("Alice", <<>>, TornName), FormReport.filepath} :
          files = [p \in S |-> IF p = FormReport.filepath THEN FormReport.report
                               ELSE Garbage(0)]
    /\ now = [d |-> "2024-03-01", t |-> "12:00:00"]
    /\ nextId = 0
    /\ ev = Event("init", "", NoPath, NoPath, NoDoc)
    /\ tasks = <<>>
    /\ sec = 0
    /\ wr = [w \in Sessions |-> Idle]
    /\ view = NoView
    /\ remote = <<>>

(***************************************************************************)
(* Specifications.                                                         *)
(***************************************************************************)
\* The dates picked in the date input: 30 days before today, and today.
PickedDates == {"2024-01-31", "2024-03-01"}

\* The text typed into the edit form.
EditedTexts == {t \in Narratives : t.tasks = "desk"}

\* The pages main() shows: Submit Report, Edit Reports and the Dashboard.
Next ==
    \/ \E o \in NewOfficers \cup {"Tasks"}, d \in PickedDates, c \in ReportCategories,
          t \in Narratives :
          SubmitReport(o, d, c, t, <<>>)
    \/ \E p \in DOMAIN files, t \in EditedTexts : EditSave(p.dir, p, t)
    \/ \E p \in DOMAIN files, n \in ReviewNotes : ReviewApprove(p, n)
    \/ \E p \in DOMAIN files, n \in ReviewNotes : ReviewNeedsAttention(p, n)
    \/ \E p \in DOMAIN files, n \in ReviewNotes : DashboardApprove(p, n)
    \/ \E p \in DOMAIN files, n \in ReviewNotes : DashboardNeedsAttention(p, n)
    \/ \E p \in DOMAIN files : DashboardMarkApproved(p)

Spec == Init /\ [][Next]_vars

\* Submission with uploads and the sweep, at midnight and at noon.
SweepNext ==
    \/ \E o \in NewOfficers : TypeNewOfficer(o)
    \/ \E o \in NewOfficers, d \in PickedDates, c \in ReportCategories,
          t \in Narratives, u \in {<<>>, <<"scan.pdf">>} :
          SubmitReport(o, d, c, t, u)
    \/ \E p \in DOMAIN files, n \in ReviewNotes : ReviewApprove(p, n)
    \/ AutoArchiveOldReports

SweepSpec == SweepInit /\ [][SweepNext]_vars

\* The Task List page of task_management_dash.
TaskNext ==
    \/ \E t \in TaskTitles : CreateTask(t, "+ Add New Assignee", "Alice")
    \/ \E t \in TaskTitles, o \in OfficerFolders(dirs) : CreateTask(t, o, "")
    \/ \E f \in DOMAIN tasks, t \in TaskTitles, st \in StatusInputs : UpdateTask(f, t, st)
    \/ \E f \in DOMAIN tasks, st \in StatusInputs : UpdateStatus(f, st)
    \/ \E f \in DOMAIN tasks, c \in CommentInputs : AddComment(f, c)
    \/ \E f \in DOMAIN tasks : DeleteTask(f)
    \/ \E f \in DOMAIN tasks : LinkTaskToReport(tasks[f]["task_id"], Uuid4(1))
    \/ TickSecond

TaskSpec == Init /\ [][TaskNext]_vars

\* An officer name with no folder under officer_reports.
AbsentOfficers == {"Carol"}

\* The sweep and the loads over the files found on disk.
FoundNext ==
    \/ AutoArchiveOldReports
    \/ \E o \in NewOfficers \cup AbsentOfficers : ViewReports(o)
    \/ ViewAllReports
    \/ ViewTasks
    \/ \E listing \in Orders(DOMAIN tasks) : ViewTasksDash(listing)
    \/ GenerateSummary
    \/ CreateDashboard
    \/ GenerateReportSummaries("2024-01-01", now.d)
    \/ LoadPerformanceData("2024-01-01", now.d)

FoundSpec == FoundInit /\ [][FoundNext]_vars

\* Two sessions editing and approving Alice's reports at once.
RaceNext ==
    \/ \E d \in PickedDates :
          SubmitReport("Alice", d, OtherReport,
                       [tasks |-> "patrol", challenges |-> "rain", solutions |-> "coat"],
                       <<>>)
    \/ \E d \in PickedDates, at \in {"open", "dump"} :
          SubmitReportFails("Alice", d, OtherReport,
                            [tasks |-> "patrol", challenges |-> "rain", solutions |-> "coat"],
                            <<>>, at)
    \/ \E w \in Sessions, p \in DOMAIN files, t \in EditedTexts : EditCompute(w, p, t)
    \/ \E w \in Sessions, p \in DOMAIN files, n \in ReviewNotes : ApproveCompute(w, p, n)
    \/ \E w \in Sessions : SaveOpen(w)
    \/ \E w \in Sessions : SaveDump(w)

RaceSpec == Init /\ [][RaceNext]_vars

\* Submission, backup to the hosted table and restore from it.
BackupNext ==
    \/ \E d \in PickedDates :
          SubmitReport("Alice", d, OtherReport,
                       [tasks |-> "patrol", challenges |-> "rain", solutions |-> "coat"],
                       <<>>)
    \/ \E listing \in Orders(SweepFiles(dirs, files)) : AutoBackupToSupabase(listing)
    \/ \E listing \in Orders(SweepFiles(dirs, files)) : SyncLocalToSupabase(listing)
    \/ \E listing \in Orders(DOMAIN remote) : RestoreFromSupabase(listing)
    \/ LocalStoreLost

BackupSpec == BackupInit /\ [][BackupNext]_vars

\* save_report called with a record by any of its callers.
SaveReportCall(officer_name, report_data) ==
    LET saved == SaveReport(dirs, files, officer_name, report_data)
    IN  /\ ~saved.raised
        /\ dirs' = saved.dirs
        /\ files' = saved.files
        /\ ev' = Event("save_report", officer_name, saved.filepath, saved.filepath,
                       saved.report)
        /\ UNCHANGED <<now, nextId, tasks, sec, wr, view, remote>>

\* report_data['date'] as text: a date, or a date followed by a time.
KeyDates ==
    {<<"2024-01-31">>, <<"2024-03-01">>, <<"2024-03-01", " ", "00:00:00">>}

\* report_data['type'] as text, with a space or with an underscore.
KeyTypes == {<<"Other", " ", "Report">>, <<"Other", "_", "Report">>}

KeyNext ==
    \E o \in NewOfficers, d \in KeyDates, c \in KeyTypes :
        SaveReportCall(o, [type |-> c, date |-> d, officer_name |-> o,
                           tasks |-> "patrol", status |-> "Pending Review",
                           comments |-> <<>>])

KeySpec == Init /\ [][KeyNext]_vars

\* manage_folders' "Confirm Rename": os.rename moves the folder and all that
\* is in it to a name that is not taken.
RenameFolder(selected_folder, new_name) ==
    /\ selected_folder \in ManageFoldersOfficerFolders(dirs)
    /\ new_name \notin dirs
    /\ dirs' = (dirs \ {selected_folder}) \cup {new_name}
    /\ files' = [q \in {IF p.dir = selected_folder THEN Path(new_name, p.sub, p.fname)
                        ELSE p : p \in DOMAIN files} |->
                    IF q.dir = new_name THEN files[Path(selected_folder, q.sub, q.fname)]
                    ELSE files[q]]
    /\ ev' = Event("rename", new_name, NoPath, NoPath, NoDoc)
    /\ UNCHANGED <<now, nextId, tasks, sec, wr, view, remote>>

\* Names typed into "Enter new folder name".
FolderNames == {"Alice", "Alicia"}

\* Submission, renaming of officer folders and review.
RenameNext ==
    \/ \E d \in PickedDates, t \in Narratives :
          SubmitReport("Alice", d, OtherReport, t, <<>>)
    \/ \E f \in dirs, n \in FolderNames : RenameFolder(f, n)
    \/ \E p \in DOMAIN files, n \in ReviewNotes : ReviewApprove(p, n)
    \/ \E p \in DOMAIN files, n \in ReviewNotes : ReviewNeedsAttention(p, n)
    \/ \E p \in DOMAIN files, n \in ReviewNotes : DashboardApprove(p, n)
    \/ \E p \in DOMAIN files, n \in ReviewNotes : DashboardNeedsAttention(p, n)
    \/ \E p \in DOMAIN files : DashboardMarkApproved(p)

RenameSpec == Init /\ [][RenameNext]_vars

\* A run of show_task_list in session w up to the widgets of the task in
\* file f: tasks = load_tasks() has read the file and the run holds its copy.
ScriptLoadTasks(w, f) ==
    /\ wr[w].pc = "idle"
    /\ f \in ShownTasks(tasks)
    /\ wr' = [wr EXCEPT ![w] = [pc |-> "task_loaded", path |-> NoPath, doc |-> tasks[f]]]
    /\ ev' = TaskEvent("load_tasks", tasks[f])
    /\ UNCHANGED <<dirs, files, now, nextId, tasks, sec, view, remote>>

\* The run goes on with the selectbox moved: the copy is changed and saved.
ScriptUpdateStatus(w, new_status) ==
    /\ wr[w].pc = "task_loaded"
    /\ new_status # wr[w].doc["status"]
    /\ LET task == Put(wr[w].doc, "status" :> new_status)
       IN  /\ tasks' = SaveTask(tasks, task, sec)
           /\ ev' = TaskEvent("task_status", task)
    /\ wr' = [wr EXCEPT ![w] = Idle]
    /\ UNCHANGED <<dirs, files, now, nextId, sec, view, remote>>

\* The run goes on with "Add Comment" pressed: the copy is changed and saved.
ScriptAddComment(w, new_comment) ==
    /\ wr[w].pc = "task_loaded"
    /\ new_comment # ""
    /\ Len(Get(wr[w].doc, "comments", <<>>)) < MaxComments
    /\ LET comment == [date |-> now.d \o " 12:00", author |-> "User", text |-> new_comment]
           task == WithComment(wr[w].doc, comment)
       IN  /\ tasks' = SaveTask(tasks, task, sec)
           /\ ev' = TaskEvent("task_comment", task)
    /\ wr' = [wr EXCEPT ![w] = Idle]
    /\ UNCHANGED <<dirs, files, now, nextId, sec, view, remote>>

\* The run ends with no widget of the task changed.
ScriptEnds(w) ==
    /\ wr[w].pc = "task_loaded"
    /\ wr' = [wr EXCEPT ![w] = Idle]
    /\ ev' = TaskEvent("run_ended", wr[w].doc)
    /\ UNCHANGED <<dirs, files, now, nextId, tasks, sec, view, remote>>

\* Comments typed by the two sessions.
SessionComments == {"ok", "seen"}

\* Two sessions on the Task List page at once.
TaskRaceNext ==
    \/ \E t \in TaskTitles : CreateTask(t, "+ Add New Assignee", "Alice")
    \/ \E w \in Sessions, f \in DOMAIN tasks : ScriptLoadTasks(w, f)
    \/ \E w \in Sessions, st \in StatusInputs : ScriptUpdateStatus(w, st)
    \/ \E w \in Sessions, c \in SessionComments : ScriptAddComment(w, c)
    \/ \E w \in Sessions : ScriptEnds(w)

TaskRaceSpec == Init /\ [][TaskRaceNext]_vars

(***************************************************************************)
(* Properties.                                                             *)
(***************************************************************************)
InSeq(x, seq) == \E i \in 1..Len(seq) : seq[i] = x

\* The operations that end in save_report.
SaveOps == {"submit", "edit", "approve", "attention", "dashboard_approve",
            "dashboard_attention", "dashboard_mark_approved"}

ApproveOps == {"approve", "dashboard_approve", "dashboard_mark_approved"}

ReviewOps == ApproveOps \cup {"attention", "dashboard_attention"}

\* The records of a load result that have the date and type of r.
SameKey(loaded, r) ==
    {i \in 1..Len(loaded) : loaded[i]["date"] = r["date"] /\ loaded[i]["type"] = r["type"]}

\* C1: after save_report(officer, record) for an officer name that is not a
\* reserved folder name, load_reports(officer) returns a record equal to the
\* record that was saved.
C1_RoundTrip ==
    (ev.op \in SaveOps /\ ev.officer \notin ADDITIONAL_FOLDERS)
        => InSeq(ev.report, LoadReportsOf(dirs, files, ev.officer))

\* A report was edited and saved again under an officer's folder.
C1_Witness ==
    /\ ev.op = "edit"
    /\ ev.officer = "Alice"
    /\ ev.report["tasks"] = "desk"
    /\ InSeq(ev.report, LoadReportsOf(dirs, files, "Alice"))

\* C2: a save under the (officer, date, type) of a stored record overwrites it:
\* afterwards load_reports(officer) returns exactly one record with that date
\* and type, and it is the record just saved.
C2_Overwrite ==
    [][(/\ ev'.op \in SaveOps
        /\ ev'.officer \notin ADDITIONAL_FOLDERS
        /\ SameKey(LoadReportsOf(dirs, files, ev'.officer), ev'.report) # {})
       => LET after == LoadReportsOf(dirs', files', ev'.officer)
          IN  /\ Cardinality(SameKey(after, ev'.report)) = 1
              /\ \A i \in SameKey(after, ev'.report) : after[i] = ev'.report]_vars

\* Two submissions with one key: one file is left, holding the second.
C2_Witness ==
    /\ ev.op = "submit"
    /\ nextId = 2
    /\ ev.officer = "Alice"
    /\ Cardinality(DOMAIN files) = 1
    /\ files[ev.path]["id"] = Uuid4(2)

\* C9: Approve, from review_reports or from either dashboard button, leaves the
\* report it was applied to stored with status Approved and a review_date that
\* is set and not null.
C9_Approve ==
    ev.op \in ApproveOps
        => /\ ev.src \in DOMAIN files
           /\ files[ev.src]["status"] = "Approved"
           /\ Has(files[ev.src], "review_date")
           /\ files[ev.src]["review_date"] \notin {None, NaN, ""}

\* A report flagged Needs Attention was marked as approved on the dashboard.
C9_Witness ==
    /\ ev.op = "dashboard_mark_approved"
    /\ files[ev.src]["status"] = "Approved"
    /\ files[ev.src]["reviewer_notes"] = "redo"

Range(seq) == {seq[i] : i \in 1..Len(seq)}

RECURSIVE TotalLoaded(_, _, _)
TotalLoaded(ds, fs, officers) ==
    IF officers = {} THEN 0
    ELSE LET d == CHOOSE x \in officers : TRUE
         IN  Len(LoadReportsOf(ds, fs, d)) + TotalLoaded(ds, fs, officers \ {d})

\* The officer a stored record belongs to, its date and its type.
KeyOf(doc) == <<doc["officer_name"], doc["date"], doc["type"]>>

\* C3: in every reachable state of the store (officer folders and archive),
\* no two stored report documents have the same (officer, date, type).
C3_OneRecordPerKey ==
    \A p, q \in DOMAIN files : KeyOf(files[p]) = KeyOf(files[q]) => p = q

\* C4: load_reports() returns exactly the records of load_reports(officer) over
\* the folders that are not reserved, each once, and no record of a reserved
\* folder.
C4_LoadAll ==
    LET all == LoadReportsAll(dirs, files)
        officers == {d \in dirs : d \notin ADDITIONAL_FOLDERS}
    IN  /\ Range(all) = UNION {Range(LoadReportsOf(dirs, files, d)) : d \in officers}
        /\ Len(all) = TotalLoaded(dirs, files, officers)
        /\ \A i, j \in 1..Len(all) : all[i] = all[j] => i = j
        /\ \A p \in DOMAIN files :
              p.dir \in ADDITIONAL_FOLDERS => ~InSeq(Loaded(files[p], p.dir), all)

\* Two officers hold one report each and load_reports() returns both.
C4_Witness ==
    /\ Len(LoadReportsAll(dirs, files)) = 2
    /\ Len(LoadReportsOf(dirs, files, "Alice")) = 1
    /\ Len(LoadReportsOf(dirs, files, "Bob")) = 1

\* C5: no officer list of the program contains a reserved folder name.
C5_ReservedNeverListed ==
    /\ ViewReportsOfficerFolders(dirs) \cap ADDITIONAL_FOLDERS = {}
    /\ ManageFoldersOfficerFolders(dirs) \cap ADDITIONAL_FOLDERS = {}
    /\ DistributionFolders(dirs) \cap ADDITIONAL_FOLDERS = {}
    /\ OfficerFolders(dirs) \cap ADDITIONAL_FOLDERS = {}

\* The instant a date text names is more than 30 days before the clock.
OlderThanWindow(date, clock) ==
    Instant(clock.d, clock.t) - Instant(date[1], "00:00:00") > 2 * 30

\* C6: a run of the sweep removes every officer's report dated more than 30
\* days before now from the officer folder and leaves it, unchanged, at
\* Archives/{year}_{month}/{officer}/{file name}; a report dated within the
\* window stays where it is, unchanged.
C6_Sweep ==
    [][ev'.op = "sweep" =>
        \A p \in AllReportPaths(dirs, files) :
            IF OlderThanWindow(files[p]["date"], now)
            THEN /\ p \notin DOMAIN files'
                 /\ LET to == Path("Archives",
                                   <<YearMonth(files[p]["date"][1]), p.dir>>, p.fname)
                    IN  to \in DOMAIN files' /\ files'[to] = files[p]
            ELSE p \in DOMAIN files' /\ files'[p] = files[p]]_vars

\* After a sweep at noon, Alice's report of 2024-01-31 is under
\* Archives/2024_01/Alice and her report of 2024-03-01 is still in her folder.
C6_Witness ==
    /\ ev.op = "sweep"
    /\ \E p \in DOMAIN files :
          /\ p.dir = "Archives" /\ p.sub = <<"2024_01", "Alice">>
          /\ files[p]["date"] = <<"2024-01-31">>
    /\ \E p \in DOMAIN files : p.dir = "Alice" /\ files[p]["date"] = <<"2024-03-01">>

\* C7: after a submission no officer folder holds a report older than the
\* retention window.
C7_SubmitSweeps ==
    ev.op = "submit" =>
        \A p \in AllReportPaths(dirs, files) : ~OlderThanWindow(files[p]["date"], now)

\* C8: a second run of the sweep at the same instant changes nothing.
C8_SweepIdempotent ==
    ev.op = "sweep" => Swept(dirs, files, now) = [dirs |-> dirs, files |-> files]

\* A sweep has moved a report into the archive.
C8_Witness ==
    /\ ev.op = "sweep"
    /\ \E p \in DOMAIN files : p.dir = "Archives"

\* C10: a review action changes no key of the stored report other than status,
\* review_date and reviewer_notes, and adds or removes none.
C10_ReviewFrame ==
    [][ev'.op \in ReviewOps =>
        LET before == files[ev'.src]
            after == files'[ev'.src]
        IN  \A k \in (DOMAIN before \cup DOMAIN after)
                        \ {"status", "review_date", "reviewer_notes"} :
                Has(before, k) /\ Has(after, k) /\ after[k] = before[k]]_vars

\* The status changes the review pages make.
StatusEdges ==
    {<<"Pending Review", "Approved">>, <<"Pending Review", "Needs Attention">>,
     <<"Needs Attention", "Approved">>}

\* C11: in every step, the status of the report stored for an (officer, date,
\* type) either stays as it was or moves along Pending Review -> Approved,
\* Pending Review -> Needs Attention or Needs Attention -> Approved; so an
\* Approved report stays Approved.
C11_StatusEdges ==
    [][\A p \in DOMAIN files \cap DOMAIN files' :
          \/ files'[p]["status"] = files[p]["status"]
          \/ <<files[p]["status"], files'[p]["status"]>> \in StatusEdges]_vars

\* C12: submit_report for an officer whose folder holds no record of the
\* date and type leaves load_reports(officer) with exactly one record of that
\* date and type, with the tasks text typed and status Pending Review.
C12_SubmitCreates ==
    [][\A o \in NewOfficers, d \in PickedDates, c \in ReportCategories, t \in Narratives :
          (/\ SubmitReport(o, d, c, t, <<>>)
           /\ \A i \in 1..Len(LoadReportsOf(dirs, files, o)) :
                 LoadReportsOf(dirs, files, o)[i]["date"] # <<d>>
                 \/ LoadReportsOf(dirs, files, o)[i]["type"] # c)
          => LET after == LoadReportsOf(dirs', files', o)
                 key == {i \in 1..Len(after) :
                            after[i]["date"] = <<d>> /\ after[i]["type"] = c}
             IN  /\ Cardinality(key) = 1
                 /\ \A i \in key : /\ after[i]["tasks"] = t.tasks
                                   /\ after[i]["status"] = "Pending Review"]_vars

\* Alice's folder holds two reports, the second one just submitted for
\* 2024-03-01 with tasks "patrol" and pending review.
C12_Witness ==
    /\ ev.op = "submit" /\ ev.officer = "Alice" /\ nextId = 2
    /\ Len(LoadReportsOf(dirs, files, "Alice")) = 2
    /\ ev.path \in DOMAIN files
    /\ files[ev.path]["id"] = Uuid4(2)
    /\ files[ev.path]["tasks"] = "patrol"
    /\ files[ev.path]["status"] = "Pending Review"

\* C13: no step of submission, review or sweep removes a stored report: the
\* report stored before the step, known by its id, is stored after it, in an
\* officer folder or in the archive.
C13_NeverLost ==
    [][\A p \in DOMAIN files :
          \E q \in DOMAIN files' : files'[q]["id"] = files[p]["id"]]_vars

\* C16: a run of the sweep keeps the number of report documents, and every
\* document stored before it is stored after it, unchanged, at exactly one
\* path.
C16_MoveOnly ==
    [][ev'.op = "sweep" =>
        /\ Cardinality(DOMAIN files') = Cardinality(DOMAIN files)
        /\ \A p \in DOMAIN files :
              Cardinality({q \in DOMAIN files' : files'[q] = files[p]}) = 1]_vars

\* C14: creating a task never uses a task_id that a stored task already has,
\* and no step changes the task_id of a stored task.
C14_TaskIdUnique ==
    [][/\ ev'.op = "create_task" => TaskFile(ev'.report["task_id"]) \notin DOMAIN tasks
       /\ \A f \in DOMAIN tasks \cap DOMAIN tasks' :
             tasks'[f]["task_id"] = tasks[f]["task_id"]]_vars

\* The keys of a task whose value differs between two versions of it.
ChangedKeys(before, after) ==
    {k \in DOMAIN before \cup DOMAIN after :
        ~(Has(before, k) /\ Has(after, k) /\ after[k] = before[k])}

\* The task files whose document differs between two stores with the same files.
ChangedTasks(before, after) == {f \in DOMAIN before : after[f] # before[f]}

\* C19: a status update keeps the set of task files and changes only the
\* status of one task; an added comment keeps the set of task files and
\* only appends one comment to the comments of one task; and a task_id
\* leaves the store only in a Delete step.
C19_TaskFrame ==
    [][/\ ev'.op = "task_status" =>
             /\ DOMAIN tasks' = DOMAIN tasks
             /\ Cardinality(ChangedTasks(tasks, tasks')) = 1
             /\ \A f \in ChangedTasks(tasks, tasks') :
                   ChangedKeys(tasks[f], tasks'[f]) = {"status"}
       /\ ev'.op = "task_comment" =>
             /\ DOMAIN tasks' = DOMAIN tasks
             /\ Cardinality(ChangedTasks(tasks, tasks')) = 1
             /\ \A f \in ChangedTasks(tasks, tasks') :
                   /\ ChangedKeys(tasks[f], tasks'[f]) = {"comments"}
                   /\ Len(tasks'[f]["comments"]) = Len(tasks[f]["comments"]) + 1
                   /\ SubSeq(tasks'[f]["comments"], 1, Len(tasks[f]["comments"]))
                          = tasks[f]["comments"]
       /\ (DOMAIN tasks \ DOMAIN tasks' # {}) => ev'.op = "delete_task"]_vars

\* A second comment has just been added to a task while another task is
\* stored too.
C19_Witness ==
    /\ ev.op = "task_comment"
    /\ Len(ev.report["comments"]) = 2
    /\ Cardinality(DOMAIN tasks) = 2
    /\ tasks[TaskFile(ev.report["task_id"])] = ev.report

\* C18: a Save Changes of edit_report leaves every stored report whose status
\* is Approved as it was.
C18_ApprovedReadOnly ==
    [][ev'.op = "edit" =>
        \A p \in DOMAIN files :
            Get(files[p], "status", None) = "Approved"
                => p \in DOMAIN files' /\ files'[p] = files[p]]_vars

\* Alice's folder holds an Approved report and a report that was just edited.
C18_Witness ==
    /\ ev.op = "edit" /\ ev.officer = "Alice"
    /\ ev.path \in DOMAIN files /\ files[ev.path]["tasks"] = "desk"
    /\ \E p \in DOMAIN files :
          p.dir = "Alice" /\ p # ev.path /\ files[p]["status"] = "Approved"

\* A document the sweep cannot date.
Undatable(doc) ==
    ~IsJson(doc) \/ ~Has(doc, "date") \/ doc["date"] \notin {<<w>> : w \in DateWords}

\* C17: in a run of the sweep, a file in an officer folder whose date cannot
\* be parsed is reported and stays where it is, unchanged, while every other
\* file of that officer and of the other officers is swept: archived when
\* dated more than 30 days before now, left in place otherwise.
C17_SweepSkips ==
    [][ev'.op = "sweep" =>
        \A p \in SweepFiles(dirs, files) :
            IF Undatable(files[p])
            THEN /\ p \in DOMAIN files' /\ files'[p] = files[p]
                 /\ p \in SweepErrors(dirs, files)
            ELSE IF OlderThanWindow(files[p]["date"], now)
            THEN /\ p \notin DOMAIN files'
                 /\ LET to == Path("Archives",
                                   <<YearMonth(files[p]["date"][1]), p.dir>>, p.fname)
                    IN  to \in DOMAIN files' /\ files'[to] = files[p]
            ELSE p \in DOMAIN files' /\ files'[p] = files[p]]_vars

\* After a sweep, Alice's and Bob's reports with an unreadable date are still in their
\* folders and their reports of 2024-01-01 are in the archive.
C17_Witness ==
    /\ ev.op = "sweep"
    /\ \A o \in NewOfficers :
          /\ Path(o, <<>>, UnreadableName) \in DOMAIN files
          /\ files[Path(o, <<>>, UnreadableName)]["date"] = UnreadableDate
          /\ Path(o, <<>>, OldName) \notin DOMAIN files
          /\ Path("Archives", <<"2024_01", o>>, OldName) \in DOMAIN files
    /\ Path("Alice", <<>>, TornName) \in DOMAIN files

\* The report files of a folder that hold a JSON document.
WellFormed(fs, officer_folder) == {p \in ReportFiles(fs, officer_folder) : IsJson(fs[p])}

\* C20: a load returns every well-formed document once and nothing else, and
\* reports every document that does not parse: load_reports(officer),
\* load_reports(), and the load_tasks of task_management_dash and of
\* officer_report_dash.
C20_MalformedSkipped ==
    /\ ev.op = "load_reports" =>
          /\ Range(view.reports) =
                 {Loaded(files[p], ev.officer) : p \in WellFormed(files, ev.officer)}
          /\ Len(view.reports) = Cardinality(WellFormed(files, ev.officer))
          /\ view.errors = ReportFiles(files, ev.officer) \ WellFormed(files, ev.officer)
    /\ ev.op = "load_all" =>
          /\ Range(view.reports) =
                 UNION {{Loaded(files[p], d) : p \in WellFormed(files, d)} : d \in dirs}
          /\ view.errors =
                 UNION {ReportFiles(files, d) \ WellFormed(files, d) : d \in dirs}
    /\ ev.op \in {"load_tasks", "dash_load_tasks"} =>
          /\ Range(view.reports) = {tasks[f] : f \in {g \in DOMAIN tasks : IsJson(tasks[g])}}
          /\ Len(view.reports) = Cardinality({g \in DOMAIN tasks : IsJson(tasks[g])})
          /\ view.errors = {g \in DOMAIN tasks : ~IsJson(tasks[g])}

\* C15: once no session is inside save_report, the file of the save that
\* finished last holds, in full, the record that save wrote.
C15_LastWriteWins ==
    (ev.op = "saved" /\ \A w \in Sessions : wr[w].pc # "open")
        => ev.path \in DOMAIN files /\ files[ev.path] = ev.report

\* C21: load_reports(officer) for an officer with no folder under
\* officer_reports returns no report and reports no error.
C21_MissingNamespace ==
    (ev.op = "load_reports" /\ ev.officer \notin dirs)
        => view.reports = <<>> /\ view.errors = {}

\* Carol's reports were just loaded while Alice's folder holds a report and
\* a file that is not JSON.
C21_Witness ==
    /\ ev.op = "load_reports" /\ ev.officer = "Carol" /\ "Carol" \notin dirs
    /\ Path("Alice", <<>>, OldName) \in DOMAIN files
    /\ Path("Alice", <<>>, TornName) \in DOMAIN files
    /\ view.reports = <<>>

AggregationOps ==
    {"generate_summary", "create_dashboard", "generate_report_summaries",
     "load_performance_data"}

\* The loadable reports of the officer folders whose date is a date.
DatedReports ==
    {files[p] : p \in {q \in AllReportPaths(dirs, files) :
                          files[q]["date"] \in {<<w>> : w \in DateWords}}}

\* C22: generate_summary, create_dashboard, generate_report_summaries and
\* load_performance_data, run over all dates, do not raise and build their
\* result from exactly the reports whose date can be parsed.
C22_AggregationSkips ==
    ev.op \in AggregationOps
        => /\ ~view.raised
           /\ Range(view.reports) = DatedReports
           /\ Len(view.reports) = Cardinality(DatedReports)

\* C23: a submission whose write fails stores nothing: every file of the
\* store is as it was before the button was pressed, and no file is added.
C23_FailedSubmitStoresNothing ==
    [][ev'.op = "submit_failed" => files' = files]_vars

\* The officer-folder files a backup can read as a report.
LocalReports == {p \in SweepFiles(dirs, files) : IsJson(files[p])}

\* C24: right after auto_backup_to_supabase, restoring the table into an
\* empty local store, whatever the order of the rows, puts every local report
\* document back at its path with its content.
C24_BackupRestore ==
    ev.op = "auto_backup"
        => \A listing \in Orders(DOMAIN remote) :
              LET restored == RestoreOver({}, <<>>, remote, listing).files
              IN  \A p \in LocalReports :
                     p \in DOMAIN restored /\ restored[p] = files[p]

\* C29: a backup run directly after a backup, the local store unchanged in
\* between, leaves the remote table with the rows the first backup left.
C29_BackupIdempotent ==
    [][(ev.op \in {"auto_backup", "sync"} /\ ev'.op \in {"auto_backup", "sync"})
          => DOMAIN remote' = DOMAIN remote]_vars

\* C25: save_report writes over a stored document only when that document
\* has the officer, date and type of the record being saved.
C25_DistinctKeysDistinctPaths ==
    [][(ev'.op = "save_report" /\ ev'.path \in DOMAIN files)
          => KeyOf(files[ev'.path]) = KeyOf(ev'.report)]_vars

\* C26: a review action writes the file the report was loaded from, and
\* makes no folder and no further file.
C26_ReviewInPlace ==
    [][ev'.op \in ReviewOps
          => /\ ev'.path = ev'.src
             /\ dirs' = dirs
             /\ DOMAIN files' = DOMAIN files]_vars

\* The keys the edit form writes.
EditedKeys ==
    {"tasks", "challenges", "solutions", "last_edited", "company_name",
     "total_schedule_files", "total_years", "companies_assigned", "total_companies"}

\* C27: Save Changes in edit_report keeps the stored files the same files, and
\* in the edited document changes no key other than the narrative fields,
\* the fields of its type and last_edited: status, id, review_date and
\* reviewer_notes are as they were.
C27_EditFrame ==
    [][ev'.op = "edit" =>
        LET before == files[ev'.src]
            after == files'[ev'.src]
        IN  /\ DOMAIN files' = DOMAIN files
            /\ \A q \in DOMAIN files \ {ev'.src} : files'[q] = files[q]
            /\ \A k \in (DOMAIN before \cup DOMAIN after) \ EditedKeys :
                  Has(before, k) /\ Has(after, k) /\ after[k] = before[k]
            /\ {"status", "id", "review_date", "reviewer_notes"} \subseteq DOMAIN before]_vars

C27_Witness ==
    /\ ev.op = "edit"
    /\ files[ev.path]["status"] = "Needs Attention"
    /\ files[ev.path]["reviewer_notes"] = "redo"
    /\ files[ev.path]["tasks"] = "desk"
    /\ Has(files[ev.path], "last_edited")

\* The keys the task form has an input for.
TaskFormKeys ==
    {"title", "description", "priority", "category", "status", "due_date", "assigned_to"}

\* C28: "Update Task" leaves every key of the stored task that the form has
\* no input for as it was: task_id, created_date, comments, linked_report.
C28_UpdateTaskFrame ==
    [][ev'.op = "update_task" =>
        LET f == TaskFile(ev'.report["task_id"])
        IN  \A k \in (DOMAIN tasks[f] \cup DOMAIN tasks'[f]) \ TaskFormKeys :
               Has(tasks[f], k) /\ Has(tasks'[f], k) /\ tasks'[f][k] = tasks[f][k]]_vars

\* C30: a status update or an added comment written by one session keeps
\* what the other session has stored in the task: every stored comment is
\* still there, and adding a comment leaves the stored status as it is.
C30_NoLostTaskUpdate ==
    [][ev'.op \in {"task_status", "task_comment"} =>
        LET f == TaskFile(ev'.report["task_id"])
        IN  f \in DOMAIN tasks =>
               /\ \A i \in DOMAIN tasks[f]["comments"] :
                     InSeq(tasks[f]["comments"][i], tasks'[f]["comments"])
               /\ ev'.op = "task_comment" => tasks'[f]["status"] = tasks[f]["status"]]_vars

====
